---- MODULE Spec2Model ----
(***************************************************************************)
(* Model of browser_use/agent/prompts.py: SystemPrompt, AgentMessagePrompt *)
(* and PlannerPrompt.                                                      *)
(*                                                                         *)
(* Text is a sequence of tokens.  A token is either one of the literal     *)
(* pieces of the f-string templates of the source (kept whole, with its    *)
(* line breaks) or one character of caller-supplied or formatted data      *)
(* (digits of a formatted int, characters of an error string, ...).        *)
(* String concatenation is \o.  An Optional value is a sequence of length  *)
(* at most one: <<>> is None and <<v>> is the value v.                     *)
(***************************************************************************)
EXTENDS Integers, Sequences, FiniteSets, TLC

VARIABLES prompt, sysmsg, builder, built, calls, lists, now

vars == <<prompt, sysmsg, builder, built, calls, lists, now>>

None == <<>>
Some(v) == <<v>>
IsNone(o) == o = <<>>
Val(o) == o[1]

-----------------------------------------------------------------------------
(* Python primitives used by the source *)

Min(a, b) == IF a <= b THEN a ELSE b
Max(a, b) == IF a >= b THEN a ELSE b

\* str(int) as the f-strings format it: decimal digits, "-" for a negative
Digit(d) == <<"0", "1", "2", "3", "4", "5", "6", "7", "8", "9">>[d + 1]

RECURSIVE NatToStr(_)
NatToStr(n) == IF n < 10 THEN <<Digit(n)>> ELSE NatToStr(n \div 10) \o <<Digit(n % 10)>>

IntToStr(n) == IF n < 0 THEN <<"-">> \o NatToStr(-n) ELSE NatToStr(n)

\* s[start:] of a Python sequence: a negative start counts from the end and
\* is clamped at 0, a start past the end gives the empty sequence
PySliceFrom(s, start) ==
    LET n == Len(s)
        lo == IF start < 0 THEN Max(n + start, 0) ELSE Min(start, n)
    IN  SubSeq(s, lo + 1, n)

\* truthiness of an Optional[str] / Optional[list]: None and empty are false
Truthy(o) == ~IsNone(o) /\ Val(o) # <<>>

\* (x or 0) for an Optional[int]
OrZero(o) == IF IsNone(o) \/ Val(o) = 0 THEN 0 ELSE Val(o)

RECURSIVE Concat(_)
Concat(ss) == IF ss = <<>> THEN <<>> ELSE Head(ss) \o Concat(Tail(ss))

-----------------------------------------------------------------------------
(* class SystemPrompt *)

\* the long literals of the class are kept as one token each, abbreviated
\* between their first and last words; RULES_TEXT is rules 1-10 of
\* important_rules
RULES_TEXT == "\n1. RESPONSE FORMAT: ... 10. Exploration: ...\n\n"

USE_MAXIMUM == "   - use maximum "

ACTIONS_PER_SEQUENCE == " actions per sequence"

INPUT_FORMAT_TEXT == "\nINPUT STRUCTURE: ... cannot be interacted with\n"

ROLE_TEXT == "You are a precise browser automation agent ... state assessment\n\n\n"

FUNCTIONS == "\n\nFunctions:\n"

REMEMBER == "\n\nRemember: Your responses must be valid JSON matching the specified format. Each action in the sequence must be valid."

PLANNER_TEXT == "You are a planning agent ... actionable insights."

DefaultMaxActionsPerStep == 10

\* SystemPrompt.__init__ (PlannerPrompt inherits it)
SystemPrompt_init(cls, action_description, max_actions_per_step) ==
    [cls |-> cls,
     default_action_description |-> action_description,
     max_actions_per_step |-> max_actions_per_step]

\* mutant: the rules carry a time stamp, as the state description does
important_rules_stamped(self) ==
    <<RULES_TEXT, USE_MAXIMUM>> \o IntToStr(self.max_actions_per_step)
        \o <<ACTIONS_PER_SEQUENCE>> \o NatToStr(now.minute)

\* mutant: the rules state the default bound, not the configured one
important_rules_default(self) ==
    <<RULES_TEXT, USE_MAXIMUM>> \o IntToStr(DefaultMaxActionsPerStep)
        \o <<ACTIONS_PER_SEQUENCE>>

important_rules(self) ==
    <<RULES_TEXT, USE_MAXIMUM>> \o IntToStr(self.max_actions_per_step)
        \o <<ACTIONS_PER_SEQUENCE>>

input_format(self) == <<INPUT_FORMAT_TEXT>>

SystemMessage(content) == [type |-> "system", content |-> content]

SystemPrompt_get_system_message(self) ==
    SystemMessage(<<ROLE_TEXT>> \o input_format(self) \o <<"\n\n">>
                  \o important_rules(self) \o <<FUNCTIONS>>
                  \o self.default_action_description \o <<REMEMBER>>)

PlannerPrompt_get_system_message(self) == SystemMessage(<<PLANNER_TEXT>>)

\* method dispatch on the instance's class
get_system_message(self) ==
    IF self.cls = "PlannerPrompt"
    THEN PlannerPrompt_get_system_message(self)
    ELSE SystemPrompt_get_system_message(self)

-----------------------------------------------------------------------------
(* collaborators of AgentMessagePrompt (browser_use.browser.views,          *)
(* browser_use.dom.views): their code is not part of prompts.py             *)

\* one element of the tree as the renderer lists it: "[index]<tag attrs>text</tag>",
\* with only the attributes named by include_attributes
RenderAttrs(node, include_attributes) ==
    LET shown(i) == IF \E j \in 1..Len(include_attributes) :
                           include_attributes[j] = node.attrs[i][1]
                    THEN <<" ", node.attrs[i][1], "=", node.attrs[i][2]>>
                    ELSE <<>>
    IN  Concat([i \in 1..Len(node.attrs) |-> shown(i)])

RenderNode(node, include_attributes) ==
    <<"[">> \o IntToStr(node.index) \o <<"]<", node.tag>>
        \o RenderAttrs(node, include_attributes) \o <<">">> \o node.text
        \o <<"</", node.tag, ">">>

\* element_tree.clickable_elements_to_string(include_attributes=...)
clickable_elements_to_string(element_tree, include_attributes) ==
    Concat([i \in 1..Len(element_tree) |->
              (IF i = 1 THEN <<>> ELSE <<"\n">>)
                  \o RenderNode(element_tree[i], include_attributes)])

\* str(list) of the tab descriptors
StrTabs(tabs) ==
    <<"[">> \o Concat([i \in 1..Len(tabs) |->
                         (IF i = 1 THEN <<>> ELSE <<", ">>) \o <<tabs[i]>>])
        \o <<"]">>

\* datetime.now().strftime('%Y-%m-%d %H:%M'): the clock is [minute, second];
\* the minute is printed with two digits and the second is not printed
strftime(t) ==
    <<"2025-01-01 00:">> \o (IF t.minute < 10 THEN <<"0">> ELSE <<>>)
        \o NatToStr(t.minute)

-----------------------------------------------------------------------------
(* class AgentMessagePrompt *)

DefaultMaxErrorLength == 400

PIXELS_ABOVE == " pixels above - scroll to see more ...\n"

PIXELS_BELOW == " pixels below - scroll to see more ..."

START_OF_PAGE == "[Start of page]\n"

END_OF_PAGE == "\n[End of page]"

EMPTY_PAGE == "empty page"

CURRENT_STEP == "Current step: "

CURRENT_TIME == "Current date and time: "

STATE_HEAD == "\n[Task history memory ends here]\n[Current state starts here]\nYou will see the following only once - if you need to remember it and you dont know it yet, write it down in the memory:\nCurrent url: "

AVAILABLE_TABS == "\nAvailable tabs:\n"

INTERACTIVE_ELEMENTS == "\nInteractive elements from current page:\n"

ACTION_RESULT == "\nAction result "

ACTION_ERROR == "\nAction error "

ELLIPSIS == "..."

DATA_URL == "data:image/png;base64,"

\* AgentMessagePrompt.__init__; include_attributes is a reference to a list
\* object (an index of lists)
AgentMessagePrompt_init(state, result, include_attributes, max_error_length, step_info) ==
    [state |-> state,
     result |-> result,
     max_error_length |-> max_error_length,
     include_attributes |-> include_attributes,
     step_info |-> step_info]

\* mutant: content above / below is taken from the field being set, so that
\* a count of 0 gets a hint
elements_text_is_set(self, attrs) ==
    LET rendered == clickable_elements_to_string(self.state.element_tree, attrs)
        prefixed == IF ~IsNone(self.state.pixels_above)
                    THEN <<"... ">> \o IntToStr(Val(self.state.pixels_above))
                             \o <<PIXELS_ABOVE>> \o rendered
                    ELSE <<START_OF_PAGE>> \o rendered
        suffixed == IF ~IsNone(self.state.pixels_below)
                    THEN prefixed \o <<"\n... ">>
                             \o IntToStr(Val(self.state.pixels_below))
                             \o <<PIXELS_BELOW>>
                    ELSE prefixed \o <<END_OF_PAGE>>
    IN  IF rendered # <<>> THEN suffixed ELSE <<EMPTY_PAGE>>

\* mutant: the rendering is wrapped before it is tested for emptiness
elements_text_wrapped_first(self, attrs) ==
    LET rendered == clickable_elements_to_string(self.state.element_tree, attrs)
        has_content_above == OrZero(self.state.pixels_above) > 0
        has_content_below == OrZero(self.state.pixels_below) > 0
        prefixed == IF has_content_above
                    THEN <<"... ">> \o IntToStr(Val(self.state.pixels_above))
                             \o <<PIXELS_ABOVE>> \o rendered
                    ELSE <<START_OF_PAGE>> \o rendered
        suffixed == IF has_content_below
                    THEN prefixed \o <<"\n... ">>
                             \o IntToStr(Val(self.state.pixels_below))
                             \o <<PIXELS_BELOW>>
                    ELSE prefixed \o <<END_OF_PAGE>>
    IN  IF suffixed # <<>> THEN suffixed ELSE <<EMPTY_PAGE>>

\* lines 166-181: the element listing with its scroll-boundary context
elements_text(self, attrs) ==
    LET rendered == clickable_elements_to_string(self.state.element_tree, attrs)
        has_content_above == OrZero(self.state.pixels_above) > 0
        has_content_below == OrZero(self.state.pixels_below) > 0
        prefixed == IF has_content_above
                    THEN <<"... ">> \o IntToStr(Val(self.state.pixels_above))
                             \o <<PIXELS_ABOVE>> \o rendered
                    ELSE <<START_OF_PAGE>> \o rendered
        suffixed == IF has_content_below
                    THEN prefixed \o <<"\n... ">>
                             \o IntToStr(Val(self.state.pixels_below))
                             \o <<PIXELS_BELOW>>
                    ELSE prefixed \o <<END_OF_PAGE>>
    IN  IF rendered # <<>> THEN suffixed ELSE <<EMPTY_PAGE>>

\* mutant: the zero-based step number is shown as it is
step_info_description_zero_based(self, time) ==
    (IF ~IsNone(self.step_info)
     THEN <<CURRENT_STEP>> \o IntToStr(Val(self.step_info).step_number)
              \o <<"/">> \o IntToStr(Val(self.step_info).max_steps)
     ELSE <<>>)
        \o <<CURRENT_TIME>> \o strftime(time)

\* lines 183-188
step_info_description(self, time) ==
    (IF ~IsNone(self.step_info)
     THEN <<CURRENT_STEP>> \o IntToStr(Val(self.step_info).step_number + 1)
              \o <<"/">> \o IntToStr(Val(self.step_info).max_steps)
     ELSE <<>>)
        \o <<CURRENT_TIME>> \o strftime(time)

\* the label "i/N: " of a result line
Label(i, n) == IntToStr(i) \o <<"/">> \o IntToStr(n) \o <<": ">>

\* lines 204-205
result_line(self, i) ==
    LET r == Val(self.result)[i]
    IN  IF Truthy(r.extracted_content)
        THEN <<ACTION_RESULT>> \o Label(i, Len(Val(self.result)))
                 \o Val(r.extracted_content)
        ELSE <<>>

\* line 208: result.error[-self.max_error_length:]
error_tail(error, max_error_length) == PySliceFrom(error, -max_error_length)

\* mutant: the error is shown only for a result without content (elif)
error_line_elif(self, i) ==
    LET r == Val(self.result)[i]
    IN  IF ~Truthy(r.extracted_content) /\ Truthy(r.error)
        THEN <<ACTION_ERROR>> \o Label(i, Len(Val(self.result)))
                 \o <<ELLIPSIS>> \o error_tail(Val(r.error), self.max_error_length)
        ELSE <<>>

\* lines 206-209
error_line(self, i) ==
    LET r == Val(self.result)[i]
    IN  IF Truthy(r.error)
        THEN <<ACTION_ERROR>> \o Label(i, Len(Val(self.result)))
                 \o <<ELLIPSIS>> \o error_tail(Val(r.error), self.max_error_length)
        ELSE <<>>

\* mutant: the results are walked from the last to the first
result_lines_reversed(self) ==
    IF Truthy(self.result)
    THEN LET n == Len(Val(self.result))
         IN  Concat([i \in 1..n |->
                       result_line(self, n + 1 - i) \o error_line(self, n + 1 - i)])
    ELSE <<>>

\* lines 202-209
result_lines(self) ==
    IF Truthy(self.result)
    THEN Concat([i \in 1..Len(Val(self.result)) |->
                   result_line(self, i) \o error_line(self, i)])
    ELSE <<>>

\* lines 190-209
state_description(self, attrs, time) ==
    <<STATE_HEAD>> \o self.state.url \o <<AVAILABLE_TABS>> \o StrTabs(self.state.tabs)
        \o <<INTERACTIVE_ELEMENTS>> \o elements_text(self, attrs) \o <<"\n">>
        \o step_info_description(self, time) \o <<"\n">> \o result_lines(self)

\* HumanMessage(content=...): content is a string, or a list of blocks
HumanMessage(is_list, content) == [type |-> "human", is_list |-> is_list, content |-> content]

\* mutant: a screenshot is attached whenever there is one
get_user_message_always_vision(self, attrs, time, use_vision) ==
    IF Truthy(self.state.screenshot)
    THEN [type |-> "human", is_list |-> TRUE,
          content |-> << [type |-> "text", body |-> state_description(self, attrs, time)],
                         [type |-> "image_url",
                          body |-> <<DATA_URL>> \o Val(self.state.screenshot)] >>]
    ELSE [type |-> "human", is_list |-> FALSE,
          content |-> state_description(self, attrs, time)]

\* lines 165-223: the returned message
get_user_message(self, attrs, time, use_vision) ==
    IF Truthy(self.state.screenshot) /\ use_vision = TRUE
    THEN HumanMessage(TRUE,
             << [type |-> "text", body |-> state_description(self, attrs, time)],
                [type |-> "image_url",
                 body |-> <<DATA_URL>> \o Val(self.state.screenshot)] >>)
    ELSE HumanMessage(FALSE, state_description(self, attrs, time))

\* mutant: the call adds an attribute to the list it was given
get_user_message_writes_append(self, attrs) ==
    [self |-> self, include_attributes |-> Append(attrs, "title")]

\* lines 165-223: the objects the call can reach, as it leaves them (the
\* method assigns only locals)
get_user_message_writes(self, attrs) == [self |-> self, include_attributes |-> attrs]

-----------------------------------------------------------------------------
(* the state machine: instances, the list objects they refer to, the clock,*)
(* and the last value each method call returned                            *)

PromptIds == {1, 2}

BuilderIds == {1, 2}

\* the list object that is the default of include_attributes (line 155)
DefaultList == 0

MaxMinute == 1

MaxSecond == 1

\* calls counted per instance
MaxCalls == 2

Init ==
    /\ prompt = [p \in PromptIds |-> None]
    /\ sysmsg = [p \in PromptIds |-> None]
    /\ builder = [b \in BuilderIds |-> None]
    /\ built = [b \in BuilderIds |-> None]
    /\ calls = [b \in BuilderIds |-> [uv \in BOOLEAN |-> None]]
    /\ lists = [i \in BuilderIds \cup {DefaultList} |-> <<>>]
    /\ now = [minute |-> 0, second |-> 0]

\* the wall clock advances between calls
TickSecond ==
    /\ now.second < MaxSecond
    /\ now' = [now EXCEPT !.second = @ + 1]
    /\ UNCHANGED <<prompt, sysmsg, builder, built, calls, lists>>

TickMinute ==
    /\ now.minute < MaxMinute
    /\ now' = [minute |-> now.minute + 1, second |-> 0]
    /\ UNCHANGED <<prompt, sysmsg, builder, built, calls, lists>>

\* p = SystemPrompt(action_description, max_actions_per_step) or
\* p = PlannerPrompt(...): the instance p is built, once
NewSystemPrompt(p, cls, action_description, max_actions_per_step) ==
    /\ IsNone(prompt[p])
    /\ prompt' = [prompt EXCEPT ![p] =
                    Some(SystemPrompt_init(cls, action_description, max_actions_per_step))]
    /\ sysmsg' = [sysmsg EXCEPT ![p] = None]
    /\ UNCHANGED <<builder, built, calls, lists, now>>

\* p.get_system_message()
GetSystemMessage(p) ==
    /\ ~IsNone(prompt[p])
    /\ IF IsNone(sysmsg[p]) THEN TRUE ELSE Val(sysmsg[p]).n < MaxCalls
    /\ sysmsg' = [sysmsg EXCEPT ![p] =
                    Some([ret |-> get_system_message(Val(prompt[p])),
                          at |-> now,
                          n |-> IF IsNone(sysmsg[p]) THEN 1 ELSE Val(sysmsg[p]).n + 1])]
    /\ UNCHANGED <<prompt, builder, built, calls, lists, now>>

\* b = AgentMessagePrompt(state, result, include_attributes, max_error_length,
\* step_info); an omitted include_attributes (None here) binds the shared
\* default list, a supplied one is the caller's own list object
NewAgentMessagePrompt(b, state, result, include_attributes, max_error_length, step_info) ==
    LET ref == IF IsNone(include_attributes) THEN DefaultList ELSE b
        heap == IF IsNone(include_attributes)
                THEN lists
                ELSE [lists EXCEPT ![b] = Val(include_attributes)]
        self == AgentMessagePrompt_init(state, result, ref, max_error_length, step_info)
    IN  /\ IsNone(builder[b])
        /\ builder' = [builder EXCEPT ![b] = Some(self)]
        /\ built' = [built EXCEPT ![b] = Some([self |-> self, attrs |-> heap[ref]])]
        /\ lists' = heap
        /\ calls' = [calls EXCEPT ![b] = [uv \in BOOLEAN |-> None]]
        /\ UNCHANGED <<prompt, sysmsg, now>>

\* b.get_user_message(use_vision)
GetUserMessage(b, use_vision) ==
    /\ ~IsNone(builder[b])
    /\ LET self == Val(builder[b])
           attrs == lists[self.include_attributes]
           after == get_user_message_writes(self, attrs)
       IN  /\ calls' = [calls EXCEPT ![b][use_vision] =
                          Some([ret |-> get_user_message(self, attrs, now, use_vision),
                                at |-> now])]
           /\ builder' = [builder EXCEPT ![b] = Some(after.self)]
           /\ lists' = [lists EXCEPT ![self.include_attributes] = after.include_attributes]
    /\ UNCHANGED <<prompt, sysmsg, built, now>>

-----------------------------------------------------------------------------
(* inputs *)

MaxActions == 2

MaxStrLen == 3

MaxB == 3

MaxResults == 3

MaxErrResults == 2

MaxPixels == 1

MaxStepNumber == 1

MaxSteps == 2

\* all strings over alphabet of length at most n
StringsUpTo(alphabet, n) == UNION {[1..k -> alphabet] : k \in 0..n}

Home == [index |-> 1, tag |-> "a", text |-> <<"Home">>, attrs |-> <<<<"title", "t">>>>]

Submit == [index |-> 33, tag |-> "button", text |-> <<"Submit">>, attrs |-> <<>>]

Trees == {<<>>, <<Home>>, <<Home, Submit>>}

BrowserState(element_tree, pixels_above, pixels_below, screenshot) ==
    [url |-> <<"u">>, tabs |-> <<"tab">>, element_tree |-> element_tree,
     pixels_above |-> pixels_above, pixels_below |-> pixels_below,
     screenshot |-> screenshot]

PlainState == BrowserState(<<Home>>, None, None, None)

ActionResult(extracted_content, error) ==
    [extracted_content |-> extracted_content, error |-> error]

Optional(S) == {None} \cup {Some(v) : v \in S}

ListsUpTo(S, n) == UNION {[1..k -> S] : k \in 0..n}

-----------------------------------------------------------------------------
(* the system prompt: instances are built and asked for their message while *)
(* the clock runs                                                          *)

ActionDescriptions == {<<"click">>, <<"click", "1", "0">>}

BoundsOfActions == (0..MaxActions) \cup {DefaultMaxActionsPerStep}

NextSys ==
    \/ \E p \in PromptIds, cls \in {"SystemPrompt", "PlannerPrompt"},
          d \in ActionDescriptions, m \in BoundsOfActions :
          NewSystemPrompt(p, cls, d, m)
    \/ \E p \in PromptIds : GetSystemMessage(p)
    \/ TickMinute

SpecSys == Init /\ [][NextSys]_vars

-----------------------------------------------------------------------------
(* results of the previous step: one builder, a fixed page, every list of  *)
(* results up to a length                                                  *)

Contents == {None, Some(<<>>), Some(<<"c">>)}

ShortErrors == {None, Some(<<>>), Some(<<"e", "f">>)}

ResultLists ==
    Optional(ListsUpTo({ActionResult(c, e) : c \in Contents, e \in ShortErrors},
                       MaxResults))

NextResults ==
    \/ \E r \in ResultLists, B \in {1, DefaultMaxErrorLength} :
          NewAgentMessagePrompt(1, PlainState, r, None, B, None)
    \/ \E uv \in BOOLEAN : GetUserMessage(1, uv)

SpecResults == Init /\ [][NextResults]_vars

-----------------------------------------------------------------------------
(* errors of the previous step: one builder, a fixed page, every error     *)
(* string up to a length against every bound up to a length                *)

ConnectionRefused ==
    <<"c", "o", "n", "n", "e", "c", "t", "i", "o", "n", " ",
      "r", "e", "f", "u", "s", "e", "d">>

Errors == Optional(StringsUpTo({"e", "f"}, MaxStrLen) \cup {ConnectionRefused})

ErrorLists ==
    Optional(ListsUpTo({ActionResult(None, e) : e \in Errors}, MaxErrResults))

ErrorBounds == (0..MaxB) \cup {5, DefaultMaxErrorLength}

NextErr ==
    \/ \E r \in ErrorLists, B \in ErrorBounds :
          NewAgentMessagePrompt(1, PlainState, r, None, B, None)
    \/ \E uv \in BOOLEAN : GetUserMessage(1, uv)

SpecErr == Init /\ [][NextErr]_vars

-----------------------------------------------------------------------------
(* the page: one builder, every element tree, scroll position, screenshot  *)
(* and attribute filter                                                    *)

Pixels == Optional((0..MaxPixels) \cup {120})

Screenshots == {None, Some(<<>>), Some(<<"i", "V", "B">>)}

AttributeLists == {None, Some(<<>>), Some(<<"title">>)}

NextPage ==
    \/ \E tree \in Trees, above \in Pixels, below \in Pixels,
          shot \in Screenshots, attrs \in AttributeLists :
          NewAgentMessagePrompt(1, BrowserState(tree, above, below, shot), None,
                                attrs, DefaultMaxErrorLength, None)
    \/ \E uv \in BOOLEAN : GetUserMessage(1, uv)
    \/ TickMinute

SpecPage == Init /\ [][NextPage]_vars

-----------------------------------------------------------------------------
(* the step line and the time stamp: one builder, with and without step    *)
(* metadata, while the clock runs                                          *)

StepInfos ==
    Optional({[step_number |-> n, max_steps |-> m] :
                 n \in (0..MaxStepNumber) \cup {9}, m \in 1..MaxSteps})

NextStep ==
    \/ \E tree \in {<<>>, <<Home>>}, below \in Pixels, info \in StepInfos,
          r \in {None, Some(<<ActionResult(Some(<<"c">>), None)>>)} :
          NewAgentMessagePrompt(1, BrowserState(tree, None, below, None), r,
                                None, DefaultMaxErrorLength, info)
    \/ \E uv \in BOOLEAN : GetUserMessage(1, uv)
    \/ TickSecond
    \/ TickMinute

SpecStep == Init /\ [][NextStep]_vars

-----------------------------------------------------------------------------
(* two builders, each with its own snapshot, some sharing the default      *)
(* include_attributes list, called in any interleaving                     *)

NextShare ==
    \/ \E b \in BuilderIds, attrs \in AttributeLists,
          r \in {None, Some(<<ActionResult(Some(<<"c">>), Some(<<"e", "f">>))>>)} :
          NewAgentMessagePrompt(b, PlainState, r, attrs, 1, None)
    \/ \E b \in BuilderIds, uv \in BOOLEAN : GetUserMessage(b, uv)
    \/ TickMinute

SpecShare == Init /\ [][NextShare]_vars

-----------------------------------------------------------------------------
(* reading a text back *)

Contains(s, t) ==
    \E i \in 0..(Len(s) - Len(t)) : SubSeq(s, i + 1, i + Len(t)) = t

EndsWith(s, t) ==
    Len(t) <= Len(s) /\ SubSeq(s, Len(s) - Len(t) + 1, Len(s)) = t

StartsWith(s, t) == Len(t) <= Len(s) /\ SubSeq(s, 1, Len(t)) = t

Positions(s, tok) == {i \in 1..Len(s) : s[i] = tok}

Count(s, tok) == Cardinality(Positions(s, tok))

\* the first position of tok in s (0 when there is none)
IndexOf(s, tok) ==
    IF Positions(s, tok) = {} THEN 0
    ELSE CHOOSE i \in Positions(s, tok) : \A j \in Positions(s, tok) : i <= j

From(s, i) == SubSeq(s, i, Len(s))

Upto(s, i) == SubSeq(s, 1, i)

SysCalled(p) == ~IsNone(prompt[p]) /\ ~IsNone(sysmsg[p])

SysText(p) == Val(sysmsg[p]).ret.content

\* what follows the action catalog in the system message of p
ClosingSentence(p) ==
    LET t == SysText(p)
        f == IndexOf(t, FUNCTIONS)
    IN  From(t, f + Len(Val(prompt[p]).default_action_description) + 1)

\* what precedes "Functions:" in the system message of p
RulesPart(p) == Upto(SysText(p), IndexOf(SysText(p), FUNCTIONS) - 1)

-----------------------------------------------------------------------------
(* reading a user message back *)

TextOf(m) == IF m.is_list THEN m.content[1].body ELSE m.content

\* the calls made on a constructed builder whose return value is recorded
Called(b, uv) == ~IsNone(builder[b]) /\ ~IsNone(calls[b][uv])

CallText(b, uv) == TextOf(Val(calls[b][uv]).ret)

DigitVal(c) == CHOOSE d \in 0..9 : Digit(d) = c

IsDigits(s) == Len(s) > 0 /\ \A i \in 1..Len(s) : \E d \in 0..9 : Digit(d) = s[i]

RECURSIVE StrToNat(_)
StrToNat(s) ==
    IF Len(s) = 1 THEN DigitVal(s[1])
    ELSE 10 * StrToNat(SubSeq(s, 1, Len(s) - 1)) + DigitVal(s[Len(s)])

RECURSIVE SortedSeq(_)
SortedSeq(S) ==
    IF S = {} THEN <<>>
    ELSE LET m == CHOOSE x \in S : \A y \in S : x <= y
         IN  <<m>> \o SortedSeq(S \ {m})

\* where the "Action result" / "Action error" lines of a text start
LineStarts(t) == SortedSeq(Positions(t, ACTION_RESULT) \cup Positions(t, ACTION_ERROR))

\* one line "\nAction <kind> i/n: body" read back
ParseLine(l) ==
    LET slash == IndexOf(l, "/")
        colon == IndexOf(l, ": ")
    IN  [kind |-> l[1],
         wellformed |-> /\ 2 < slash /\ slash + 1 < colon
                        /\ IsDigits(SubSeq(l, 2, slash - 1))
                        /\ IsDigits(SubSeq(l, slash + 1, colon - 1)),
         i |-> StrToNat(SubSeq(l, 2, slash - 1)),
         n |-> StrToNat(SubSeq(l, slash + 1, colon - 1)),
         body |-> From(l, colon + 1)]

\* the "Action result" / "Action error" lines of a text, in text order
Lines(t) ==
    LET st == LineStarts(t)
    IN  [k \in 1..Len(st) |->
           ParseLine(SubSeq(t, st[k],
                            IF k < Len(st) THEN st[k + 1] - 1 ELSE Len(t)))]

\* the results a builder was given (an absent list has none)
Results(b) == IF IsNone(Val(builder[b]).result) THEN <<>> ELSE Val(Val(builder[b]).result)

\* the last k characters of e
LastChars(e, k) == SubSeq(e, Len(e) - k + 1, Len(e))

-----------------------------------------------------------------------------
(* C6, C7 *)

SameInputs(p, q) ==
    /\ Val(prompt[p]).cls = Val(prompt[q]).cls
    /\ Val(prompt[p]).default_action_description
           = Val(prompt[q]).default_action_description
    /\ Val(prompt[p]).max_actions_per_step = Val(prompt[q]).max_actions_per_step

\* the messages two instances with the same inputs returned are the same,
\* whenever each was called
SameSystemText ==
    \A p, q \in PromptIds :
        SysCalled(p) /\ SysCalled(q) /\ SameInputs(p, q) => SysText(p) = SysText(q)

\* a call on an instance that was called before returns the same text again
RepeatedSystemText ==
    \A p \in PromptIds :
        SysCalled(p) /\ prompt'[p] = prompt[p] /\ ~IsNone(sysmsg'[p])
            => Val(sysmsg'[p]).ret = Val(sysmsg[p]).ret

\* C6: get_system_message is pure: instances built with identical
\* (action_description, max_actions_per_step) return identical text, at any
\* time and whatever else was built or called, and a repeated call on one
\* instance returns the text it returned before.
C6_SystemMessagePure == []SameSystemText /\ [][RepeatedSystemText]_vars

\* two instances with the same inputs, called at different times, one of
\* them more than once
C6_Witness ==
    \E p, q \in PromptIds :
        /\ p # q /\ SysCalled(p) /\ SysCalled(q) /\ SameInputs(p, q)
        /\ Val(prompt[p]).cls = "SystemPrompt"
        /\ Val(sysmsg[p]).at # Val(sysmsg[q]).at
        /\ Val(sysmsg[p]).n >= 2

IsSystemPrompt(p) == SysCalled(p) /\ Val(prompt[p]).cls = "SystemPrompt"

BoundText(p) == IntToStr(Val(prompt[p]).max_actions_per_step)

\* C7 as stated: the closing sentence of the system message, the reminder
\* that follows the action catalog, contains the literal bound m.
C7_ClosingSentenceHasBound ==
    \A p \in PromptIds : IsSystemPrompt(p) => Contains(ClosingSentence(p), BoundText(p))

\* C7 amended: the literal bound m is in the sentence "use maximum m actions
\* per sequence" that closes the rules, before "Functions:" and the action
\* catalog; the reminder that follows the catalog is a fixed sentence.
C7_BoundClosesRules ==
    \A p \in PromptIds :
        IsSystemPrompt(p) =>
            /\ EndsWith(RulesPart(p),
                        <<USE_MAXIMUM>> \o BoundText(p) \o <<ACTIONS_PER_SEQUENCE>>)
            /\ ClosingSentence(p) = <<REMEMBER>>

\* a message for the default bound 10, with a catalog that itself has "10"
C7_Witness ==
    \E p \in PromptIds :
        /\ IsSystemPrompt(p)
        /\ Val(prompt[p]).max_actions_per_step = DefaultMaxActionsPerStep
        /\ Contains(Val(prompt[p]).default_action_description, <<"1", "0">>)

-----------------------------------------------------------------------------
(* C1, C2, C8 *)

\* the lines of the text a recorded call returned
CallLines(b, uv) == Lines(CallText(b, uv))

\* the characters of the error an error line shows, after its marker
ShownError(line) ==
    IF line.body # <<>> /\ line.body[1] = ELLIPSIS THEN Tail(line.body) ELSE line.body

\* the error line of result i shows the last min(L, B) characters of the
\* error, after the marker when L > B
TailShown(line, e, B) ==
    /\ ShownError(line) = LastChars(e, Min(Len(e), B))
    /\ Len(e) > B => line.body # <<>> /\ line.body[1] = ELLIPSIS

\* C1: for an error of length L and a bound B = max_error_length, the
\* "Action error i/N" line holds exactly min(L, B) characters of the error,
\* its last min(L, B) characters, preceded by "..." when L > B.
C1_ErrorTail ==
    \A b \in BuilderIds, uv \in BOOLEAN :
        Called(b, uv) =>
            \A k \in 1..Len(CallLines(b, uv)) :
                LET line == CallLines(b, uv)[k]
                IN  line.kind = ACTION_ERROR =>
                        TailShown(line, Val(Results(b)[line.i].error),
                                  Val(builder[b]).max_error_length)

\* the labels of the lines never decrease along the text
InSuppliedOrder(ls) == \A j, k \in 1..Len(ls) : j < k => ls[j].i <= ls[k].i

\* every line is labelled i/N with N the number of results and shows what
\* result i holds
LabelledAndFaithful(b, ls) ==
    \A k \in 1..Len(ls) :
        /\ ls[k].wellformed
        /\ ls[k].n = Len(Results(b))
        /\ ls[k].i \in 1..Len(Results(b))
        /\ LET r == Results(b)[ls[k].i]
           IN  IF ls[k].kind = ACTION_RESULT
               THEN Truthy(r.extracted_content) /\ ls[k].body = Val(r.extracted_content)
               ELSE /\ Truthy(r.error)
                    /\ ls[k].body = <<ELLIPSIS>>
                           \o error_tail(Val(r.error), Val(builder[b]).max_error_length)

\* no result has two lines of one kind
NotRepeated(ls) ==
    \A j, k \in 1..Len(ls) : ls[j].i = ls[k].i /\ ls[j].kind = ls[k].kind => j = k

HasLine(ls, i) == \E k \in 1..Len(ls) : ls[k].i = i

HasLineOf(ls, i, kind) == \E k \in 1..Len(ls) : ls[k].i = i /\ ls[k].kind = kind

\* C2 as stated: the lines are in the order the results were supplied, each
\* labelled i/N, and every supplied result is represented by at least one
\* line.
C2_EveryResultHasALine ==
    \A b \in BuilderIds, uv \in BOOLEAN :
        Called(b, uv) =>
            /\ InSuppliedOrder(CallLines(b, uv))
            /\ LabelledAndFaithful(b, CallLines(b, uv))
            /\ NotRepeated(CallLines(b, uv))
            /\ \A i \in 1..Len(Results(b)) : HasLine(CallLines(b, uv), i)

\* C2 amended: the lines are in the order the results were supplied, each
\* labelled i/N with i the position of its result and N the number of
\* supplied results; no line is repeated; a result is represented by at
\* least one line exactly when its extracted_content or its error is
\* non-empty (a result with neither has no line, and still counts in i, N).
C2_ResultOrder ==
    \A b \in BuilderIds, uv \in BOOLEAN :
        Called(b, uv) =>
            /\ InSuppliedOrder(CallLines(b, uv))
            /\ LabelledAndFaithful(b, CallLines(b, uv))
            /\ NotRepeated(CallLines(b, uv))
            /\ \A i \in 1..Len(Results(b)) :
                   HasLine(CallLines(b, uv), i)
                       <=> (Truthy(Results(b)[i].extracted_content)
                               \/ Truthy(Results(b)[i].error))

\* three results, with lines for the first and the last and none for the
\* one between them
C2_Witness ==
    \E uv \in BOOLEAN :
        /\ Called(1, uv)
        /\ Len(Results(1)) >= 3
        /\ HasLine(CallLines(1, uv), 1)
        /\ HasLine(CallLines(1, uv), Len(Results(1)))
        /\ \E i \in 1..Len(Results(1)) : ~HasLine(CallLines(1, uv), i)
        /\ Len(CallLines(1, uv)) >= 2

\* C8: result i has an "Action result i/N" line exactly when its
\* extracted_content is present (not None, not empty) and an "Action error
\* i/N" line exactly when its error is present; with both, the result line
\* comes before the error line; with no results (None or an empty list) the
\* text has no such line.
C8_LinePerField ==
    \A b \in BuilderIds, uv \in BOOLEAN :
        Called(b, uv) =>
            LET ls == CallLines(b, uv)
            IN  /\ \A k \in 1..Len(ls) :
                       ls[k].wellformed /\ ls[k].n = Len(Results(b))
                           /\ ls[k].i \in 1..Len(Results(b))
                /\ NotRepeated(ls)
                /\ \A i \in 1..Len(Results(b)) :
                       /\ HasLineOf(ls, i, ACTION_RESULT)
                              <=> Truthy(Results(b)[i].extracted_content)
                       /\ HasLineOf(ls, i, ACTION_ERROR) <=> Truthy(Results(b)[i].error)
                       /\ \A j, k \in 1..Len(ls) :
                              /\ ls[j].i = i /\ ls[j].kind = ACTION_RESULT
                              /\ ls[k].i = i /\ ls[k].kind = ACTION_ERROR
                              => j < k
                /\ Len(Results(b)) = 0 =>
                       /\ Count(CallText(b, uv), ACTION_RESULT) = 0
                       /\ Count(CallText(b, uv), ACTION_ERROR) = 0

\* a result with both fields, after one with an error only
C8_Witness ==
    \E uv \in BOOLEAN :
        /\ Called(1, uv)
        /\ Len(Results(1)) >= 2
        /\ HasLineOf(CallLines(1, uv), 2, ACTION_RESULT)
        /\ HasLineOf(CallLines(1, uv), 2, ACTION_ERROR)
        /\ ~HasLineOf(CallLines(1, uv), 1, ACTION_RESULT)
        /\ HasLineOf(CallLines(1, uv), 1, ACTION_ERROR)

-----------------------------------------------------------------------------
(* C3, C4, C5, C9 *)

\* where the step-info line of a text starts
StepStart(t) ==
    IF Count(t, CURRENT_STEP) > 0 THEN IndexOf(t, CURRENT_STEP)
    ELSE IndexOf(t, CURRENT_TIME)

\* the element listing of a text: what stands between the "Interactive
\* elements from current page:" header and the line break that ends it
Listing(t) == SubSeq(t, IndexOf(t, INTERACTIVE_ELEMENTS) + 1, StepStart(t) - 2)

PageOf(b) == Val(builder[b]).state

\* the rendering of the element tree the builder was given
Rendering(b) ==
    clickable_elements_to_string(PageOf(b).element_tree,
                                 lists[Val(builder[b]).include_attributes])

AboveHint(k) == <<"... ">> \o IntToStr(k) \o <<PIXELS_ABOVE>>

BelowHint(k) == <<"\n... ">> \o IntToStr(k) \o <<PIXELS_BELOW>>

\* the prefix and the suffix the claim names for a pixel count
PrefixFor(px) == IF IsNone(px) \/ Val(px) = 0 THEN <<START_OF_PAGE>> ELSE AboveHint(Val(px))

SuffixFor(px) == IF IsNone(px) \/ Val(px) = 0 THEN <<END_OF_PAGE>> ELSE BelowHint(Val(px))

\* C3: with a non-empty rendering the listing has exactly one prefix and
\* one suffix around the rendering: "[Start of page]" for pixels_above 0 or
\* absent and a hint with the number k for pixels_above = k > 0; "[End of
\* page]" for pixels_below 0 or absent and a hint with k for pixels_below =
\* k > 0.
C3_BoundaryMarkers ==
    \A b \in BuilderIds, uv \in BOOLEAN :
        Called(b, uv) /\ Rendering(b) # <<>> =>
            LET l == Listing(CallText(b, uv))
            IN  /\ l = PrefixFor(PageOf(b).pixels_above) \o Rendering(b)
                           \o SuffixFor(PageOf(b).pixels_below)
                /\ Count(l, START_OF_PAGE) + Count(l, PIXELS_ABOVE) = 1
                /\ Count(l, END_OF_PAGE) + Count(l, PIXELS_BELOW) = 1

\* pixels_above = 120 and pixels_below = 0 around a non-empty rendering
C3_Witness ==
    \E uv \in BOOLEAN :
        /\ Called(1, uv)
        /\ Rendering(1) # <<>>
        /\ PageOf(1).pixels_above = Some(120)
        /\ PageOf(1).pixels_below = Some(0)
        /\ StartsWith(Listing(CallText(1, uv)), <<"... ", "1", "2", "0", PIXELS_ABOVE>>)
        /\ EndsWith(Listing(CallText(1, uv)), <<END_OF_PAGE>>)

\* C4: with an empty rendering the listing is the literal "empty page" and
\* the text has no "[Start of page]", no "[End of page]" and no pixels
\* above / below hint, whatever pixels_above and pixels_below are.
C4_EmptyPage ==
    \A b \in BuilderIds, uv \in BOOLEAN :
        Called(b, uv) /\ Rendering(b) = <<>> =>
            /\ Listing(CallText(b, uv)) = <<EMPTY_PAGE>>
            /\ \A tok \in {START_OF_PAGE, END_OF_PAGE, PIXELS_ABOVE, PIXELS_BELOW} :
                   Count(CallText(b, uv), tok) = 0

\* an empty tree on a page scrolled away from both ends
C4_Witness ==
    \E uv \in BOOLEAN :
        /\ Called(1, uv)
        /\ Rendering(1) = <<>>
        /\ OrZero(PageOf(1).pixels_above) > 0
        /\ OrZero(PageOf(1).pixels_below) > 0
        /\ Count(CallText(1, uv), EMPTY_PAGE) = 1

\* the state has a screenshot: the field is set and is not the empty string
HasScreenshot(b) == ~IsNone(PageOf(b).screenshot) /\ Val(PageOf(b).screenshot) # <<>>

\* the message is one text block and one image block for the screenshot
IsComposite(m, shot) ==
    /\ m.is_list
    /\ Len(m.content) = 2
    /\ m.content[1].type = "text"
    /\ m.content[2].type = "image_url"
    /\ m.content[2].body = <<DATA_URL>> \o shot

\* C5: the message is composite, one text block and one image block with a
\* data:image/png;base64 reference to the screenshot, exactly when the state
\* has a screenshot and use_vision is true, and text-only otherwise; calls in
\* the two branches at one clock value carry the same text.
C5_VisionBranch ==
    \A b \in BuilderIds :
        /\ \A uv \in BOOLEAN :
               Called(b, uv) =>
                   LET m == Val(calls[b][uv]).ret
                   IN  IF HasScreenshot(b) /\ uv
                       THEN IsComposite(m, Val(PageOf(b).screenshot))
                       ELSE ~m.is_list
        /\ (Called(b, TRUE) /\ Called(b, FALSE)
               /\ Val(calls[b][TRUE]).at = Val(calls[b][FALSE]).at)
               => CallText(b, TRUE) = CallText(b, FALSE)

\* a state with a screenshot, asked with and without vision at one time
C5_Witness ==
    /\ Called(1, TRUE) /\ Called(1, FALSE)
    /\ HasScreenshot(1)
    /\ Val(calls[1][TRUE]).at = Val(calls[1][FALSE]).at
    /\ Val(calls[1][TRUE]).ret.is_list
    /\ ~Val(calls[1][FALSE]).ret.is_list

\* the step-info line of a text, up to the line break that ends it
StepLine(t) ==
    LET rest == From(t, StepStart(t))
    IN  Upto(rest, IndexOf(rest, "\n") - 1)

\* where the element listing of a text ends
ListingEnd(t) == StepStart(t) - 2

\* "Current step: a/b" read back as <<a, b>>
StepShown(line) ==
    LET slash == IndexOf(line, "/")
        stamp == IndexOf(line, CURRENT_TIME)
    IN  <<StrToNat(SubSeq(line, 2, slash - 1)), StrToNat(SubSeq(line, slash + 1, stamp - 1))>>

\* the minute a time stamp shows
MinuteShown(line) ==
    LET stamp == IndexOf(line, CURRENT_TIME)
    IN  StrToNat(SubSeq(line, stamp + 2, Len(line)))

\* C9: the step-info line reads "Current step: {step_number+1}/{max_steps}"
\* with step metadata and has no such part without; either way the current
\* date and time stamp is in the message, after the step part and after the
\* element listing.
C9_StepInfoLine ==
    \A b \in BuilderIds, uv \in BOOLEAN :
        Called(b, uv) =>
            LET t == CallText(b, uv)
                line == StepLine(t)
                info == Val(builder[b]).step_info
            IN  /\ Count(t, CURRENT_TIME) = 1
                /\ Count(line, CURRENT_TIME) = 1
                /\ MinuteShown(line) = Val(calls[b][uv]).at.minute
                /\ t[ListingEnd(t)] \in {END_OF_PAGE, PIXELS_BELOW, EMPTY_PAGE}
                /\ ListingEnd(t) < IndexOf(t, CURRENT_TIME)
                /\ IF IsNone(info)
                   THEN Count(t, CURRENT_STEP) = 0 /\ line[1] = CURRENT_TIME
                   ELSE /\ Count(t, CURRENT_STEP) = 1
                        /\ line[1] = CURRENT_STEP
                        /\ IndexOf(line, "/") < IndexOf(line, CURRENT_TIME)
                        /\ StepShown(line) = <<Val(info).step_number + 1, Val(info).max_steps>>

\* step 10 of 2 steps (step_number 9), asked after the first minute
C9_Witness ==
    \E uv \in BOOLEAN :
        /\ Called(1, uv)
        /\ ~IsNone(Val(builder[1]).step_info)
        /\ Val(Val(builder[1]).step_info).step_number = 9
        /\ Val(calls[1][uv]).at.minute > 0
        /\ Contains(CallText(1, uv), <<CURRENT_STEP, "1", "0", "/">>)

-----------------------------------------------------------------------------
(* C10 *)

Constructed(b) == ~IsNone(builder[b])

\* C10: a call writes nothing that outlives it: after any number of calls,
\* in any interleaving, a builder and the list its include_attributes refers
\* to are as they were built, and every message returned is the one the
\* builder as built returns at that time when it is the only one called.
C10_NoWrites ==
    \A b \in BuilderIds :
        Constructed(b) =>
            /\ Val(builder[b]) = Val(built[b]).self
            /\ lists[Val(builder[b]).include_attributes] = Val(built[b]).attrs
            /\ \A uv \in BOOLEAN :
                   Called(b, uv) =>
                       Val(calls[b][uv]).ret
                           = get_user_message(Val(built[b]).self, Val(built[b]).attrs,
                                              Val(calls[b][uv]).at, uv)

\* two builders on the shared default list, each called in both branches,
\* the calls of one spanning the calls of the other
C10_Witness ==
    /\ \A b \in BuilderIds :
           /\ Constructed(b)
           /\ Val(builder[b]).include_attributes = DefaultList
           /\ Called(b, TRUE) /\ Called(b, FALSE)
    /\ Val(calls[1][TRUE]).at.minute < Val(calls[2][TRUE]).at.minute
    /\ Val(calls[2][FALSE]).at.minute < Val(calls[1][FALSE]).at.minute

====
